---- MODULE Spec2Model ----
(***************************************************************************)
(* Model of server.py: the UserAuthMiddleware pipeline (on_call_tool and   *)
(* on_read_resource, split at their await points), the tool handler behind *)
(* call_next, and the two custom routes /health and                        *)
(* /.well-known/openid-configuration.                                      *)
(***************************************************************************)
EXTENDS Integers, FiniteSets, Sequences, TLC

\* Number of request slots that can be in flight at the same time.
NumReqs == 2

\* Number of those slots in use while the custom routes are exercised.
HttpReqs == 1

Reqs == 1 .. NumReqs

\* Python's None, as stored by set_state and returned by dict.get / get_state.
None == "None"

\* The subjects the identity provider may put in the sub claim.
Subjects == {"u1", "u2"}

\* Values KEYCLOAK_REALM_URL can take from the environment at start-up.
RealmUrls == {"https://kc.example/realms/a", "https://kc.example/realms/b"}

(***************************************************************************)
(* What get_access_token() can hand to _get_user_id.  shape is the Python  *)
(* shape of the object: no token at all, a token object without a claims   *)
(* attribute, a token whose claims attribute is None, one whose claims is  *)
(* not a mapping (a str), and one whose claims is a dict.                  *)
(***************************************************************************)
EmptyClaims == [k \in {} |-> None]

ClaimsDicts ==
    {EmptyClaims} \cup {[sub |-> u, aud |-> "mcp-server"] : u \in Subjects}

NoToken == [shape |-> "no_token", claims |-> EmptyClaims]

Tokens ==
    {NoToken}
        \cup {[shape |-> s, claims |-> EmptyClaims] :
                s \in {"no_claims_attr", "claims_none", "claims_str"}}
        \cup {[shape |-> "claims_dict", claims |-> c] : c \in ClaimsDicts}

\* dict.get(key): the value, or None when the key is missing.
DictGet(d, key) == IF key \in DOMAIN d THEN d[key] ELSE None

\* Outcome of a Python call: a returned value or a raised exception.
Returned(v) == [kind |-> "return", value |-> v]
Raised(e) == [kind |-> "raise", value |-> e]
Pending == [kind |-> "pending", value |-> None]

\* hasattr(token, "claims")
HasClaimsAttr(token) == token.shape \in {"claims_none", "claims_str", "claims_dict"}

\* truthiness of the token object: None is falsy, an AccessToken is truthy
Truthy(token) == token.shape # "no_token"

\* A resolver that answers None for every token.
get_user_id_always_none(token) == Returned(None)

\* A resolver without the guard on a missing token or a missing attribute.
get_user_id_unguarded(token) ==
    IF token.shape = "claims_dict"
        THEN Returned(DictGet(token.claims, "sub"))
        ELSE Raised("AttributeError")

\* UserAuthMiddleware._get_user_id
_get_user_id(token) ==
    IF ~(Truthy(token) /\ HasClaimsAttr(token))
        THEN Returned(None)
    ELSE IF token.shape = "claims_dict"
        THEN Returned(DictGet(token.claims, "sub"))
    ELSE Raised("AttributeError")

\* One context object shared by every request, as a module-level store would be.
shared_context(r) == 1

\* The RequestContext object reached through context.fastmcp_context: each
\* request's MiddlewareContext refers to the context of that request.
fastmcp_context(r) == r

\* Context.set_state(key, value) on a request-scoped key -> value store.
set_state(store, key, value) ==
    [k \in DOMAIN store \cup {key} |-> IF k = key THEN value ELSE store[k]]

\* Context.get_state(key): the stored value, or None when the key was never set.
get_state(store, key) == DictGet(store, key)

\* A RequestContext as created at the start of a request: no key set.
EmptyState == [k \in {} |-> None]

\* A hook that goes straight to call_next and never stores the identity.
skip_set_state(has_ctx) == "call_next"

\* "if context.fastmcp_context is not None": the await the coroutine reaches
\* after resolving the identity.
AfterResolve(has_ctx) == IF has_ctx THEN "set_state" ELSE "call_next"

\* A hook that catches the error of the next stage and answers None instead.
swallow_errors(outcome) ==
    IF outcome.kind = "raise" THEN Returned(None) ELSE outcome

\* "return await call_next(context)": what the hook hands back, given the
\* outcome of the next stage.
ReturnAwait(outcome) == outcome

\* What a tool or resource handler can end with.
HandlerOutcomes == {Returned("tool_result"), Raised("ToolError")}

\* JSONResponse(content): status_code defaults to 200.
JSONResponse(content) == [status_code |-> 200, body |-> content]

\* A GET on a custom route; it may or may not carry a bearer token.
HttpRequests == [path : {"/health", "/.well-known/openid-configuration"},
                 has_token : BOOLEAN]

NoResponse ==
    [route |-> "none", has_token |-> FALSE, idp_reachable |-> TRUE,
     response |-> JSONResponse([status |-> "none"])]

VARIABLES
    KEYCLOAK_REALM_URL, \* module global read from the environment at import
    idp_reachable,      \* whether the identity provider answers right now
    http_response,      \* last response served by a custom route
    served_docs,        \* every discovery document served so far
    pc,                 \* per request: where its middleware coroutine stands
    kind,               \* per request: "tool" or "resource"
    token,              \* per request: what get_access_token() returns for it
    has_context,        \* per request: context.fastmcp_context is not None
    user_id,            \* per request: the local user_id of the hook
    state,              \* per RequestContext: its key -> value store
    observed,           \* per request: what its handler read under user_id
    handler_result,     \* per request: outcome of the next stage
    result,             \* per request: outcome of the middleware hook
    writes,             \* per request: set_state calls it has completed
    forwards            \* per request: call_next calls it has made

http_vars == <<KEYCLOAK_REALM_URL, idp_reachable, http_response, served_docs>>

req_vars ==
    <<pc, kind, token, has_context, user_id, state, observed, handler_result,
      result, writes, forwards>>

vars == <<http_vars, req_vars>>

Init ==
    /\ KEYCLOAK_REALM_URL \in RealmUrls
    /\ idp_reachable = TRUE
    /\ http_response = NoResponse
    /\ served_docs = {}
    /\ pc = [r \in Reqs |-> "idle"]
    /\ kind = [r \in Reqs |-> "none"]
    /\ token = [r \in Reqs |-> NoToken]
    /\ has_context = [r \in Reqs |-> FALSE]
    /\ user_id = [r \in Reqs |-> None]
    /\ state = [r \in Reqs |-> EmptyState]
    /\ observed = [r \in Reqs |-> "unread"]
    /\ handler_result = [r \in Reqs |-> Pending]
    /\ result = [r \in Reqs |-> Pending]
    /\ writes = [r \in Reqs |-> 0]
    /\ forwards = [r \in Reqs |-> 0]

(***************************************************************************)
(* The first segment of a hook, up to its first await: the request enters  *)
(* with its token and its context, _get_user_id runs, and the coroutine    *)
(* either dies with the exception _get_user_id raised or goes on to the    *)
(* await chosen by the test on context.fastmcp_context.                    *)
(***************************************************************************)
Enter(r, k, tok, ctx) ==
    /\ pc[r] = "idle"
    /\ kind' = [kind EXCEPT ![r] = k]
    /\ token' = [token EXCEPT ![r] = tok]
    /\ has_context' = [has_context EXCEPT ![r] = ctx]
    /\ LET res == _get_user_id(tok) IN
        IF res.kind = "raise"
            THEN /\ result' = [result EXCEPT ![r] = res]
                 /\ pc' = [pc EXCEPT ![r] = "done"]
                 /\ UNCHANGED user_id
            ELSE /\ user_id' = [user_id EXCEPT ![r] = res.value]
                 /\ pc' = [pc EXCEPT ![r] = AfterResolve(ctx)]
                 /\ UNCHANGED result
    /\ UNCHANGED <<state, observed, handler_result, writes, forwards, http_vars>>

\* UserAuthMiddleware.on_call_tool, entered for a request on an idle slot.
on_call_tool(r) ==
    /\ pc[r] = "idle"
    /\ \E tok \in Tokens, ctx \in BOOLEAN : Enter(r, "tool", tok, ctx)

\* UserAuthMiddleware.on_read_resource, entered for a request on an idle slot.
on_read_resource(r) ==
    /\ pc[r] = "idle"
    /\ \E tok \in Tokens, ctx \in BOOLEAN : Enter(r, "resource", tok, ctx)

\* "await context.fastmcp_context.set_state("user_id", user_id)" completes.
SetState(r) ==
    /\ pc[r] = "set_state"
    /\ LET c == fastmcp_context(r) IN
        state' = [state EXCEPT ![c] = set_state(state[c], "user_id", user_id[r])]
    /\ writes' = [writes EXCEPT ![r] = @ + 1]
    /\ pc' = [pc EXCEPT ![r] = "call_next"]
    /\ UNCHANGED <<kind, token, has_context, user_id, observed, handler_result,
                   result, forwards, http_vars>>

\* "call_next(context)": the next stage runs the handler, which may read
\* user_id from its request's context and ends with a value or an error.
CallNext(r) ==
    /\ pc[r] = "call_next"
    /\ forwards' = [forwards EXCEPT ![r] = @ + 1]
    /\ observed' = [observed EXCEPT ![r] =
            IF has_context[r]
                THEN get_state(state[fastmcp_context(r)], "user_id")
                ELSE "unread"]
    /\ \E out \in HandlerOutcomes :
            handler_result' = [handler_result EXCEPT ![r] = out]
    /\ pc' = [pc EXCEPT ![r] = "returning"]
    /\ UNCHANGED <<kind, token, has_context, user_id, state, result, writes,
                   http_vars>>

\* The hook resumes from "await call_next(context)" and returns.
Return(r) ==
    /\ pc[r] = "returning"
    /\ result' = [result EXCEPT ![r] = ReturnAwait(handler_result[r])]
    /\ pc' = [pc EXCEPT ![r] = "done"]
    /\ UNCHANGED <<kind, token, has_context, user_id, state, observed,
                   handler_result, writes, forwards, http_vars>>

\* The response is sent: the request and its RequestContext are gone and the
\* slot can carry a new request.
Respond(r) ==
    /\ pc[r] = "done"
    /\ pc' = [pc EXCEPT ![r] = "idle"]
    /\ kind' = [kind EXCEPT ![r] = "none"]
    /\ token' = [token EXCEPT ![r] = NoToken]
    /\ has_context' = [has_context EXCEPT ![r] = FALSE]
    /\ user_id' = [user_id EXCEPT ![r] = None]
    /\ state' = [state EXCEPT ![r] = EmptyState]
    /\ observed' = [observed EXCEPT ![r] = "unread"]
    /\ handler_result' = [handler_result EXCEPT ![r] = Pending]
    /\ result' = [result EXCEPT ![r] = Pending]
    /\ writes' = [writes EXCEPT ![r] = 0]
    /\ forwards' = [forwards EXCEPT ![r] = 0]
    /\ UNCHANGED http_vars

\* A health check that answers 503 while the identity provider is down.
health_check_needs_idp(_request) ==
    IF idp_reachable
        THEN JSONResponse([status |-> "healthy", service |-> "mcp-server"])
        ELSE [status_code |-> 503,
              body |-> [status |-> "unhealthy", service |-> "mcp-server"]]

\* health_check
health_check(_request) ==
    JSONResponse([status |-> "healthy", service |-> "mcp-server"])

\* A discovery document that leaves the "/" out of the jwks_uri suffix.
openid_configuration_bad_jwks(_request) ==
    JSONResponse(
        [issuer |-> KEYCLOAK_REALM_URL,
         authorization_endpoint |-> KEYCLOAK_REALM_URL \o "/protocol/openid-connect/auth",
         token_endpoint |-> KEYCLOAK_REALM_URL \o "/protocol/openid-connect/token",
         userinfo_endpoint |-> KEYCLOAK_REALM_URL \o "/protocol/openid-connect/userinfo",
         jwks_uri |-> KEYCLOAK_REALM_URL \o "protocol/openid-connect/certs",
         registration_endpoint |-> KEYCLOAK_REALM_URL \o "/clients-registrations/openid-connect",
         scopes_supported |-> <<"openid", "profile", "email", "mcp:access">>,
         response_types_supported |-> <<"code">>,
         grant_types_supported |-> <<"authorization_code", "refresh_token">>,
         token_endpoint_auth_methods_supported |-> <<"client_secret_basic", "client_secret_post">>,
         code_challenge_methods_supported |-> <<"S256">>])

\* openid_configuration
openid_configuration(_request) ==
    JSONResponse(
        [issuer |-> KEYCLOAK_REALM_URL,
         authorization_endpoint |-> KEYCLOAK_REALM_URL \o "/protocol/openid-connect/auth",
         token_endpoint |-> KEYCLOAK_REALM_URL \o "/protocol/openid-connect/token",
         userinfo_endpoint |-> KEYCLOAK_REALM_URL \o "/protocol/openid-connect/userinfo",
         jwks_uri |-> KEYCLOAK_REALM_URL \o "/protocol/openid-connect/certs",
         registration_endpoint |-> KEYCLOAK_REALM_URL \o "/clients-registrations/openid-connect",
         scopes_supported |-> <<"openid", "profile", "email", "mcp:access">>,
         response_types_supported |-> <<"code">>,
         grant_types_supported |-> <<"authorization_code", "refresh_token">>,
         token_endpoint_auth_methods_supported |-> <<"client_secret_basic", "client_secret_post">>,
         code_challenge_methods_supported |-> <<"S256">>])

\* GET /health is answered by health_check; no middleware hook is involved.
GetHealth ==
    \E q \in HttpRequests :
        /\ q.path = "/health"
        /\ http_response' =
                [route |-> q.path, has_token |-> q.has_token,
                 idp_reachable |-> idp_reachable, response |-> health_check(q)]
        /\ UNCHANGED <<KEYCLOAK_REALM_URL, idp_reachable, served_docs, req_vars>>

\* GET /.well-known/openid-configuration is answered by openid_configuration.
GetOpenidConfiguration ==
    \E q \in HttpRequests :
        /\ q.path = "/.well-known/openid-configuration"
        /\ http_response' =
                [route |-> q.path, has_token |-> q.has_token,
                 idp_reachable |-> idp_reachable,
                 response |-> openid_configuration(q)]
        /\ served_docs' = served_docs \cup {openid_configuration(q).body}
        /\ UNCHANGED <<KEYCLOAK_REALM_URL, idp_reachable, req_vars>>

\* The identity provider, an external service, goes down or comes back.
IdpChange ==
    /\ idp_reachable' = ~idp_reachable
    /\ UNCHANGED <<KEYCLOAK_REALM_URL, http_response, served_docs, req_vars>>

Next ==
    \E r \in Reqs :
        \/ on_call_tool(r)
        \/ on_read_resource(r)
        \/ SetState(r)
        \/ CallNext(r)
        \/ Return(r)
        \/ Respond(r)

Spec == Init /\ [][Next]_vars

\* The custom routes, interleaved with the pipeline and with the identity
\* provider going down and coming back.
NextHttp ==
    \/ GetHealth
    \/ GetOpenidConfiguration
    \/ IdpChange
    \/ \E r \in 1 .. HttpReqs :
        \/ on_call_tool(r)
        \/ on_read_resource(r)
        \/ SetState(r)
        \/ CallNext(r)
        \/ Return(r)
        \/ Respond(r)

SpecHttp == Init /\ [][NextHttp]_vars

(***************************************************************************)
(* Vocabulary of the properties.                                           *)
(***************************************************************************)

\* The token is a validated token whose claims contain sub = u.
HasSub(tok, u) ==
    /\ tok.shape = "claims_dict"
    /\ "sub" \in DOMAIN tok.claims
    /\ tok.claims["sub"] = u

\* No token, a token without a claims structure, or claims without sub.
LacksIdentity(tok) ==
    \/ tok.shape \in {"no_token", "no_claims_attr"}
    \/ tok.shape = "claims_dict" /\ "sub" \notin DOMAIN tok.claims

\* The subject a request's own token names, None when it names none.
OwnSubject(r) ==
    IF token[r].shape = "claims_dict" THEN DictGet(token[r].claims, "sub") ELSE None

\* The hook of request r is past its state write (or past the place of it).
PastWrite(r) == pc[r] \in {"call_next", "returning", "done"} /\ result[r].kind # "raise"

\* The hook of request r ended with an exception the next stage did not raise.
MiddlewareRaised(r) == result[r].kind = "raise" /\ result[r] # handler_result[r]

\* The response of the health route as the route table gives it.
Healthy200 ==
    [status_code |-> 200, body |-> [status |-> "healthy", service |-> "mcp-server"]]

(***************************************************************************)
(* C1: for a call of either kind whose token carries sub = u, once the     *)
(* hook is past its state write the RequestContext of that request holds   *)
(* user_id = u.                                                            *)
(***************************************************************************)
C1_SubjectStored ==
    \A r \in Reqs : \A u \in Subjects :
        (kind[r] \in {"tool", "resource"} /\ has_context[r]
            /\ HasSub(token[r], u) /\ PastWrite(r))
        => /\ "user_id" \in DOMAIN state[r]
           /\ state[r]["user_id"] = u

C1_Witness ==
    /\ kind[1] = "tool" /\ has_context[1] /\ HasSub(token[1], "u1")
    /\ pc[1] = "done" /\ state[1] = [user_id |-> "u1"]
    /\ kind[2] = "resource" /\ has_context[2] /\ HasSub(token[2], "u2")
    /\ pc[2] = "call_next" /\ state[2] = [user_id |-> "u2"]

(***************************************************************************)
(* C2: for a call with no token, a token without a claims structure or     *)
(* claims without sub, the RequestContext ends with user_id = None and the *)
(* call goes on to the handler: the hook raises nothing and the call is    *)
(* forwarded.                                                              *)
(***************************************************************************)
C2_AnonymousProceeds ==
    \A r \in Reqs :
        (pc[r] # "idle" /\ LacksIdentity(token[r]))
        => /\ ~MiddlewareRaised(r)
           /\ pc[r] = "done" => forwards[r] = 1
           /\ (has_context[r] /\ pc[r] \in {"call_next", "returning", "done"})
                => /\ "user_id" \in DOMAIN state[r]
                   /\ state[r]["user_id"] = None

C2_Witness ==
    /\ pc[1] = "done" /\ token[1] = NoToken /\ has_context[1]
    /\ forwards[1] = 1 /\ state[1] = [user_id |-> None]
    /\ pc[2] = "done" /\ token[2].shape = "claims_dict"
    /\ token[2].claims = EmptyClaims /\ has_context[2]
    /\ forwards[2] = 1 /\ state[2] = [user_id |-> None]

(***************************************************************************)
(* C3: the hook itself never raises: whatever the token looks like, the    *)
(* call does not end with an exception of the middleware, and once the     *)
(* hook has ended a token without a usable subject has left                *)
(* user_id = None in the RequestContext.                                   *)
(***************************************************************************)
C3_NeverRaises ==
    \A r \in Reqs :
        /\ ~MiddlewareRaised(r)
        /\ (pc[r] = "done" /\ has_context[r]
                /\ token[r].shape \in {"claims_none", "claims_str"})
            => /\ "user_id" \in DOMAIN state[r]
               /\ state[r]["user_id"] = None

(***************************************************************************)
(* C4: every intercepted call is forwarded to the next stage exactly once  *)
(* and the hook returns exactly what the next stage returned: a finished   *)
(* call has made one call_next and its result is the handler's.            *)
(***************************************************************************)
C4_ForwardedOnce ==
    \A r \in Reqs :
        /\ forwards[r] <= 1
        /\ pc[r] = "done" => /\ forwards[r] = 1
                             /\ result[r] = handler_result[r]

(***************************************************************************)
(* C5: the write of user_id precedes the handler: in no state has the      *)
(* handler of a request with a RequestContext run while the hook of that   *)
(* request has not completed its write.                                    *)
(***************************************************************************)
C5_WriteBeforeHandler ==
    \A r \in Reqs :
        (has_context[r] /\ forwards[r] >= 1)
        => /\ writes[r] >= 1
           /\ "user_id" \in DOMAIN state[r]
           /\ observed[r] = user_id[r]

C5_Witness ==
    \E r \in Reqs :
        /\ has_context[r] /\ pc[r] = "returning" /\ forwards[r] = 1
        /\ writes[r] = 1 /\ observed[r] = "u1"

(***************************************************************************)
(* C6: isolation: whatever the interleaving, the RequestContext of a       *)
(* request only ever holds that request's own subject or None, its handler *)
(* only ever reads one of those, and a slot without a RequestContext holds *)
(* nothing.                                                                *)
(***************************************************************************)
C6_Isolation ==
    \A r \in Reqs :
        /\ \A k \in DOMAIN state[r] : state[r][k] \in {None, OwnSubject(r)}
        /\ observed[r] \in {"unread", None, OwnSubject(r)}
        /\ ~has_context[r] => state[r] = EmptyState

C6_Witness ==
    /\ HasSub(token[1], "u1") /\ HasSub(token[2], "u2")
    /\ has_context[1] /\ has_context[2]
    /\ pc[1] = "returning" /\ observed[1] = "u1"
    /\ pc[2] = "set_state" /\ state[2] = EmptyState

(***************************************************************************)
(* C7: exactly one write to the RequestContext per intercepted call: a     *)
(* finished call with a RequestContext has written its identity slot once, *)
(* never more, and did so before its handler ran.                          *)
(***************************************************************************)
C7_ExactlyOneWrite ==
    \A r \in Reqs :
        /\ writes[r] <= 1
        /\ (has_context[r] /\ forwards[r] >= 1) => writes[r] = 1
        /\ (has_context[r] /\ pc[r] = "done") => writes[r] = 1

(***************************************************************************)
(* C8: the health route answers every GET with 200 and the fixed payload,  *)
(* whether the identity provider is reachable or not and whether the       *)
(* request carries a token or not, and serving it leaves every request's   *)
(* middleware state and RequestContext untouched.                          *)
(***************************************************************************)
C8_HealthAlwaysHealthy ==
    /\ [](http_response.route = "/health" => http_response.response = Healthy200)
    /\ [][(http_response'.route = "/health" /\ http_response' # http_response)
            => UNCHANGED <<req_vars, KEYCLOAK_REALM_URL, served_docs>>]_vars

C8_Witness ==
    /\ http_response.route = "/health"
    /\ ~http_response.idp_reachable
    /\ ~http_response.has_token
    /\ http_response.response.status_code = 200
    /\ pc[1] = "set_state"

(***************************************************************************)
(* C9: the discovery document is a function of the realm URL R alone:      *)
(* every document served has issuer = R and each endpoint equal to R       *)
(* followed by its path, all documents served are the same document, and   *)
(* no step changes R.                                                      *)
(***************************************************************************)
C9_DiscoveryPure ==
    /\ [](/\ Cardinality(served_docs) <= 1
          /\ \A d \in served_docs :
                LET R == KEYCLOAK_REALM_URL IN
                /\ d.issuer = R
                /\ d.authorization_endpoint = R \o "/protocol/openid-connect/auth"
                /\ d.token_endpoint = R \o "/protocol/openid-connect/token"
                /\ d.userinfo_endpoint = R \o "/protocol/openid-connect/userinfo"
                /\ d.jwks_uri = R \o "/protocol/openid-connect/certs"
                /\ d.registration_endpoint = R \o "/clients-registrations/openid-connect"
          /\ http_response.route = "/.well-known/openid-configuration"
                => http_response.response.body \in served_docs)
    /\ [][KEYCLOAK_REALM_URL' = KEYCLOAK_REALM_URL]_vars

C9_Witness ==
    /\ http_response.route = "/.well-known/openid-configuration"
    /\ http_response.has_token
    /\ served_docs # {}
    /\ pc[1] = "done" /\ HasSub(token[1], "u1")

(***************************************************************************)
(* C10: when the next stage ends in an error the hook hands that same      *)
(* error on, having called the next stage once only, and the user_id it    *)
(* wrote to the RequestContext is still what it wrote.                     *)
(***************************************************************************)
C10_HandlerErrorPropagates ==
    \A r \in Reqs :
        (pc[r] = "done" /\ handler_result[r].kind = "raise")
        => /\ result[r] = handler_result[r]
           /\ forwards[r] = 1
           /\ has_context[r] => /\ writes[r] = 1
                                /\ state[r] = [user_id |-> user_id[r]]

C10_Witness ==
    \E r \in Reqs :
        /\ pc[r] = "done" /\ kind[r] = "resource"
        /\ handler_result[r] = Raised("ToolError")
        /\ result[r] = Raised("ToolError")
        /\ has_context[r] /\ state[r] = [user_id |-> "u2"]

====
